---- MODULE Spec2Model ----
(***************************************************************************)
(* Model of src/yt_api.py: the /download request lifecycle of the FastAPI  *)
(* application (key check, workspace creation, credential-copy            *)
(* provisioning, blocking extraction on a worker thread, response), the    *)
(* /health endpoint, and the part of the /tmp filesystem they touch.       *)
(*                                                                         *)
(* One asyncio event loop runs the coroutines: `loop` names the request    *)
(* whose coroutine is currently running on it (Idle when none).  The body  *)
(* of _download_sync runs on a worker thread (asyncio.to_thread); worker   *)
(* steps of different requests interleave freely.                          *)
(***************************************************************************)
EXTENDS Integers, Sequences, FiniteSets

\* ---------------------------------------------------------------- bounds
NumReq == 2            \* number of /download requests in one run
MaxLen == 2            \* longest API_KEY / X-API-Key text

Req == 1..NumReq
Idle == 0              \* the event loop runs no coroutine

\* ---------------------------------------------------------------- strings
\* Python str is modelled as a sequence of one-character strings; None is a
\* value outside every such sequence.
None == <<"None">>
Chars == {"k", "x", " "}

RECURSIVE StrUpTo(_)
StrUpTo(n) ==
  IF n = 0 THEN {<<>>}
  ELSE LET S == StrUpTo(n - 1)
       IN  S \cup {Append(s, c) : s \in {t \in S : Len(t) = n - 1}, c \in Chars}

\* str.strip(): drop leading and trailing whitespace.
RECURSIVE LStrip(_)
LStrip(s) == IF s # <<>> /\ Head(s) = " " THEN LStrip(Tail(s)) ELSE s

RECURSIVE RStrip(_)
RStrip(s) ==
  IF s # <<>> /\ s[Len(s)] = " " THEN RStrip(SubSeq(s, 1, Len(s) - 1)) ELSE s

Strip(s) == RStrip(LStrip(s))

\* (value or ""): None and the empty string both give "".
OrEmpty(v) == IF v = None \/ v = <<>> THEN <<>> ELSE v

\* ---------------------------------------------------------------- messages
UnauthorizedDetail == <<"Unauthorized (invalid API key).">>
MissingFileDetail == <<"Arquivo nao encontrado apos download.">>
WrapPrefix == <<"Erro ao baixar o video: ">>

HTTPException(code, det) == [type |-> "HTTPException", status |-> code, detail |-> det]
PlainException(txt) == [type |-> "Exception", text |-> txt]
NoExc == [type |-> "none"]

\* _check_api_key (lines 65-71): the exception it raises, or NoExc.
\* Faulty variant: compares without .strip().
CheckApiKeyNoTrim(envKey, value) ==
  LET required == OrEmpty(envKey)
      got == OrEmpty(value)
  IN  IF required = <<>> THEN NoExc
      ELSE IF got # required THEN HTTPException(401, UnauthorizedDetail)
      ELSE NoExc

\* Faulty variant: lacks the `if not required: return` of lines 67-68.
CheckApiKeyAlways(envKey, value) ==
  LET required == Strip(OrEmpty(envKey))
      got == Strip(OrEmpty(value))
  IN  IF got # required THEN HTTPException(401, UnauthorizedDetail) ELSE NoExc

_check_api_key(envKey, value) ==
  LET required == Strip(OrEmpty(envKey))
      got == Strip(OrEmpty(value))
  IN  IF required = <<>> THEN NoExc
      ELSE IF got # required THEN HTTPException(401, UnauthorizedDetail)
      ELSE NoExc

\* The except clauses of download_video (lines 116-119): what reaches the
\* caller for an exception raised inside the try block.
\* Faulty variant: lacks `except HTTPException: raise`.
HandlerOutcomeWrapAll(exc) ==
  IF exc.type = "HTTPException"
  THEN [status |-> 500, detail |-> WrapPrefix \o exc.detail]
  ELSE [status |-> 500, detail |-> WrapPrefix \o exc.text]

HandlerOutcome(exc) ==
  IF exc.type = "HTTPException"
  THEN [status |-> exc.status, detail |-> exc.detail]
  ELSE [status |-> 500, detail |-> WrapPrefix \o exc.text]


\* ---------------------------------------------------------------- environment
\* Values of the environment variables and of the X-API-Key header that the
\* request-lifecycle specification draws from.
ApiKeyEnvs == {None, <<" ", "k">>}
CookiesEnvs == {None, <<"c", " ">>}
Headers == {None, <<>>, <<"k", " ">>, <<"x">>}
KeyTexts == StrUpTo(MaxLen) \cup {None}

Pid == 1               \* os.getpid() of the server process
DirNames == 1..NumReq  \* random suffixes tempfile.mkdtemp can draw

Absent == [content |-> "absent"]
FileBy(r, c) == [content |-> c, writer |-> r]

\* dst of _prepare_cookiefile_writable (line 27).
CookieDst(r) == <<"/tmp/cookies_", Pid, ".txt">>
CookiePaths == {CookieDst(r) : r \in Req}

\* tmpdir of download_video (line 104) and the engine's output file in it.
WorkDir(d) == <<"/tmp/ytdlp_", d>>
OutPath(d) == <<WorkDir(d), "title.mp4">>

\* os.path.basename (line 113).
Basename(f) == f[Len(f)]

\* The name mkdtemp creates: one that no existing directory has.  The random
\* suffix is represented by the first unused name.
MkdtempName(existing) == CHOOSE d \in DirNames \ existing :
                           \A e \in DirNames \ existing : d <= e

\* asyncio.to_thread (line 105): the coroutine awaits, the loop is released.
\* Faulty variant of LoopAfterOffload: _download_sync called on the loop.
LoopAfterOffloadBlocking(r) == r
LoopAfterOffload(r) == Idle

VARIABLES
  apiKeyEnv,     \* os.getenv("API_KEY")
  cookiesEnv,    \* os.getenv("YTDLP_COOKIES_PATH")
  srcExists,     \* whether the file named by YTDLP_COOKIES_PATH exists
  loop,          \* request whose coroutine runs on the event loop, or Idle
  pc,            \* position of each request
  header,        \* X-API-Key of each request, until the key check has used it
  tmpdir,        \* workspace directory name of each request (0: none)
  cookiefile,    \* value of cookiefile in _download_sync (None: none)
  result,        \* how _download_sync ended for each request
  response,      \* what the caller of /download received
  engineCalls,   \* whether extract_info was invoked for the request
  dirs,          \* workspace directories existing under /tmp
  copies,        \* state of each credential-copy path under /tmp
  files,         \* output files existing in the workspaces
  healthSaw      \* whether a /health response was sent while the extraction
                 \* of some request was running on a worker thread

vars == <<apiKeyEnv, cookiesEnv, srcExists, loop, pc, header, tmpdir,
          cookiefile, result, response, engineCalls, dirs, copies, files,
          healthSaw>>

env == <<apiKeyEnv, cookiesEnv, srcExists>>

ThreadPcs == {"thr_prepare", "thr_copy_write", "thr_engine",
              "thr_finally", "thr_remove", "thr_exit", "thr_done"}
LoopPcs == {"received", "keychecked", "wsready"}

OnThread == {r \in Req : pc[r] \in ThreadPcs}

NoResult == [kind |-> "none"]
NoResponse == [status |-> 0, detail |-> <<>>]

\* src of _prepare_cookiefile_writable (line 20) and os.path.exists(src)
\* (line 23).
CookieSrc == Strip(OrEmpty(cookiesEnv))
\* Faulty variant of SourceExists: lacks the check of line 23.
SourceExistsAssumed == TRUE
SourceExists == srcExists

InitState ==
  /\ loop = Idle
  /\ pc = [r \in Req |-> "idle"]
  /\ header = [r \in Req |-> None]
  /\ tmpdir = [r \in Req |-> 0]
  /\ cookiefile = [r \in Req |-> None]
  /\ result = [r \in Req |-> NoResult]
  /\ response = [r \in Req |-> NoResponse]
  /\ engineCalls = [r \in Req |-> FALSE]
  /\ dirs = {}
  /\ copies = [p \in CookiePaths |-> Absent]
  /\ files = {}
  /\ healthSaw = FALSE

Init ==
  /\ apiKeyEnv \in ApiKeyEnvs
  /\ cookiesEnv \in CookiesEnvs
  /\ srcExists \in BOOLEAN
  /\ (CookieSrc = <<>> => ~srcExists)
  /\ InitState

\* ---------------------------------------------------------------- event loop
\* The dispatcher starts download_video for an arriving request.
Receive(r, h) ==
  /\ loop = Idle
  /\ pc[r] = "idle"
  /\ loop' = r
  /\ pc' = [pc EXCEPT ![r] = "received"]
  /\ header' = [header EXCEPT ![r] = h]
  /\ UNCHANGED <<env, tmpdir, cookiefile, result, response, engineCalls,
                 dirs, copies, files, healthSaw>>

\* Line 101: _check_api_key is outside the try block, so its HTTPException
\* reaches the caller as raised.
CheckKey(r) ==
  /\ pc[r] = "received"
  /\ LET exc == _check_api_key(apiKeyEnv, header[r])
     IN  IF exc.type = "HTTPException"
         THEN /\ response' = [response EXCEPT
                     ![r] = [status |-> exc.status, detail |-> exc.detail]]
              /\ pc' = [pc EXCEPT ![r] = "done"]
              /\ loop' = Idle
         ELSE /\ pc' = [pc EXCEPT ![r] = "keychecked"]
              /\ UNCHANGED <<response, loop>>
  /\ header' = [header EXCEPT ![r] = None]
  /\ UNCHANGED <<env, tmpdir, cookiefile, result, engineCalls,
                 dirs, copies, files, healthSaw>>

\* Line 104: tempfile.mkdtemp creates a fresh directory.
MkdtempOk(r) ==
  /\ pc[r] = "keychecked"
  /\ LET d == MkdtempName(dirs)
     IN  /\ dirs' = dirs \cup {d}
         /\ tmpdir' = [tmpdir EXCEPT ![r] = d]
  /\ pc' = [pc EXCEPT ![r] = "wsready"]
  /\ UNCHANGED <<env, loop, header, cookiefile, result, response, engineCalls,
                 copies, files, healthSaw>>

\* Line 104 raising OSError: caught by `except Exception` (lines 118-119).
MkdtempFail(r) ==
  /\ pc[r] = "keychecked"
  /\ response' = [response EXCEPT
         ![r] = HandlerOutcome(PlainException(<<"OSError: mkdtemp">>))]
  /\ pc' = [pc EXCEPT ![r] = "done"]
  /\ loop' = Idle
  /\ UNCHANGED <<env, header, tmpdir, cookiefile, result, engineCalls,
                 dirs, copies, files, healthSaw>>

\* Faulty variant of Offload: _download_sync may start before mkdtemp.
OffloadBeforeMkdtemp(r) ==
  /\ pc[r] \in {"keychecked", "wsready"}
  /\ pc' = [pc EXCEPT ![r] = "thr_prepare"]
  /\ loop' = LoopAfterOffload(r)
  /\ UNCHANGED <<env, header, tmpdir, cookiefile, result, response,
                 engineCalls, dirs, copies, files, healthSaw>>

\* Line 105: await asyncio.to_thread(_download_sync, url, tmpdir).
Offload(r) ==
  /\ pc[r] = "wsready"
  /\ pc' = [pc EXCEPT ![r] = "thr_prepare"]
  /\ loop' = LoopAfterOffload(r)
  /\ UNCHANGED <<env, header, tmpdir, cookiefile, result, response,
                 engineCalls, dirs, copies, files, healthSaw>>

\* Lines 74-76.
Health ==
  /\ loop = Idle
  /\ healthSaw' = (healthSaw \/ OnThread # {})
  /\ UNCHANGED <<env, loop, pc, header, tmpdir, cookiefile, result, response,
                 engineCalls, dirs, copies, files>>


\* ---------------------------------------------------------------- worker thread
Raised(exc) == [kind |-> "raised", exc |-> exc]
Returned(f) == [kind |-> "returned", filename |-> f]

\* Lines 20-22 of _prepare_cookiefile_writable, called at line 34 before the
\* try block of _download_sync: no credential path is configured.
PrepareNone(r) ==
  /\ pc[r] = "thr_prepare"
  /\ CookieSrc = <<>>
  /\ pc' = [pc EXCEPT ![r] = "thr_engine"]
  /\ UNCHANGED <<env, loop, header, tmpdir, cookiefile, result, response,
                 engineCalls, dirs, copies, files, healthSaw>>

\* Lines 23-24: the configured source file does not exist.
PrepareMissing(r) ==
  /\ pc[r] = "thr_prepare"
  /\ CookieSrc # <<>>
  /\ ~SourceExists
  /\ result' = [result EXCEPT ![r] = Raised(PlainException(
                   <<"Cookie file not found at ">> \o CookieSrc))]
  /\ pc' = [pc EXCEPT ![r] = "thr_exit"]
  /\ UNCHANGED <<env, loop, header, tmpdir, cookiefile, response, engineCalls,
                 dirs, copies, files, healthSaw>>

\* Lines 26-28, first half: shutil.copyfile opens dst for writing, which
\* creates it or truncates what is there.
CopyOpen(r) ==
  /\ pc[r] = "thr_prepare"
  /\ CookieSrc # <<>>
  /\ SourceExists
  /\ copies' = [copies EXCEPT ![CookieDst(r)] = FileBy(r, "partial")]
  /\ pc' = [pc EXCEPT ![r] = "thr_copy_write"]
  /\ UNCHANGED <<env, loop, header, tmpdir, cookiefile, result, response,
                 engineCalls, dirs, files, healthSaw>>

\* Line 28 raising OSError (dst cannot be opened): no file is created and
\* the exception leaves _download_sync before its try block.
CopyFail(r) ==
  /\ pc[r] = "thr_prepare"
  /\ CookieSrc # <<>>
  /\ SourceExists
  /\ result' = [result EXCEPT ![r] = Raised(PlainException(<<"OSError: copyfile">>))]
  /\ pc' = [pc EXCEPT ![r] = "thr_exit"]
  /\ UNCHANGED <<env, loop, header, tmpdir, cookiefile, response, engineCalls,
                 dirs, copies, files, healthSaw>>

\* Lines 28-29, second half: the bytes are written and dst is returned.  A
\* path unlinked in the meantime stays unlinked.
CopyWrite(r) ==
  /\ pc[r] = "thr_copy_write"
  /\ copies' = [copies EXCEPT ![CookieDst(r)] =
                  IF @ = Absent THEN Absent ELSE FileBy(r, "full")]
  /\ cookiefile' = [cookiefile EXCEPT ![r] = CookieDst(r)]
  /\ pc' = [pc EXCEPT ![r] = "thr_engine"]
  /\ UNCHANGED <<env, loop, header, tmpdir, result, response, engineCalls,
                 dirs, files, healthSaw>>

\* Lines 52-55: the extraction engine, an opaque collaborator.  It raises,
\* or returns a file name whose file it did or did not leave on disk, or
\* returns an empty name.
EngineOutcomes == {"raise", "file", "nofile", "empty"}

Engine(r, o) ==
  /\ pc[r] = "thr_engine"
  /\ engineCalls' = [engineCalls EXCEPT ![r] = TRUE]
  /\ result' = [result EXCEPT ![r] =
        CASE o = "raise" -> Raised(PlainException(<<"DownloadError">>))
          [] o = "empty" -> Returned(<<>>)
          [] OTHER       -> Returned(OutPath(tmpdir[r]))]
  /\ files' = IF o = "file" THEN files \cup {OutPath(tmpdir[r])} ELSE files
  /\ pc' = [pc EXCEPT ![r] = "thr_finally"]
  /\ UNCHANGED <<env, loop, header, tmpdir, cookiefile, response, dirs,
                 copies, healthSaw>>

\* Line 58: if cookiefile and os.path.exists(cookiefile).
FinallyCheck(r) ==
  /\ pc[r] = "thr_finally"
  /\ pc' = [pc EXCEPT ![r] =
        IF cookiefile[r] # None /\ copies[cookiefile[r]] # Absent
        THEN "thr_remove" ELSE "thr_exit"]
  /\ UNCHANGED <<env, loop, header, tmpdir, cookiefile, result, response,
                 engineCalls, dirs, copies, files, healthSaw>>

\* Lines 59-62: os.remove(cookiefile); a FileNotFoundError is swallowed.
Remove(r) ==
  /\ pc[r] = "thr_remove"
  /\ copies' = [copies EXCEPT ![cookiefile[r]] = Absent]
  /\ pc' = [pc EXCEPT ![r] = "thr_exit"]
  /\ UNCHANGED <<env, loop, header, tmpdir, cookiefile, result, response,
                 engineCalls, dirs, files, healthSaw>>

\* _download_sync returns or raises: its locals are gone and the future of
\* to_thread completes.
ThreadReturn(r) ==
  /\ pc[r] = "thr_exit"
  /\ pc' = [pc EXCEPT ![r] = "thr_done"]
  /\ cookiefile' = [cookiefile EXCEPT ![r] = None]
  /\ UNCHANGED <<env, loop, header, tmpdir, result, response,
                 engineCalls, dirs, copies, files, healthSaw>>

\* ---------------------------------------------------------------- resumption
\* Line 107: not filename or not os.path.exists(filename).
\* Faulty variant of FileMissing: lacks the check of line 107.
FileMissingIgnored(f) == FALSE
FileMissing(f) == f = <<>> \/ f \notin files

\* Lines 105-119 after the await: the event loop resumes the coroutine, which
\* runs to its end without awaiting again: the exception of the worker, the
\* missing-file check, or the FileResponse.
Respond(r) ==
  /\ pc[r] = "thr_done"
  /\ loop = Idle
  /\ response' = [response EXCEPT ![r] =
        IF result[r].kind = "raised" THEN HandlerOutcome(result[r].exc)
        ELSE IF FileMissing(result[r].filename)
        THEN HandlerOutcome(HTTPException(500, MissingFileDetail))
        ELSE [status |-> 200, detail |-> <<Basename(result[r].filename)>>]]
  /\ result' = [result EXCEPT ![r] = NoResult]
  /\ tmpdir' = [tmpdir EXCEPT ![r] = 0]
  /\ pc' = [pc EXCEPT ![r] = "done"]
  /\ loop' = Idle
  /\ UNCHANGED <<env, header, cookiefile, engineCalls, dirs, copies, files,
                 healthSaw>>

\* ---------------------------------------------------------------- specification
Next ==
  \/ \E r \in Req, h \in Headers : Receive(r, h)
  \/ \E r \in Req : CheckKey(r)
  \/ \E r \in Req : MkdtempOk(r)
  \/ \E r \in Req : MkdtempFail(r)
  \/ \E r \in Req : Offload(r)
  \/ Health
  \/ \E r \in Req : PrepareNone(r)
  \/ \E r \in Req : PrepareMissing(r)
  \/ \E r \in Req : CopyOpen(r)
  \/ \E r \in Req : CopyFail(r)
  \/ \E r \in Req : CopyWrite(r)
  \/ \E r \in Req, o \in EngineOutcomes : Engine(r, o)
  \/ \E r \in Req : FinallyCheck(r)
  \/ \E r \in Req : Remove(r)
  \/ \E r \in Req : ThreadReturn(r)
  \/ \E r \in Req : Respond(r)

Spec == Init /\ [][Next]_vars

\* The key check over every API_KEY and X-API-Key text up to MaxLen
\* characters: requests are served one after the other, each as request 1
\* of a fresh run.
InitKey ==
  /\ apiKeyEnv \in KeyTexts
  /\ cookiesEnv \in CookiesEnvs
  /\ srcExists \in BOOLEAN
  /\ (CookieSrc = <<>> => ~srcExists)
  /\ InitState

NextKey ==
  \/ \E h \in KeyTexts : Receive(1, h)
  \/ CheckKey(1)
  \/ MkdtempOk(1)
  \/ MkdtempFail(1)
  \/ Offload(1)
  \/ Health
  \/ PrepareNone(1)
  \/ PrepareMissing(1)
  \/ CopyOpen(1)
  \/ CopyFail(1)
  \/ CopyWrite(1)
  \/ \E o \in EngineOutcomes : Engine(1, o)
  \/ FinallyCheck(1)
  \/ Remove(1)
  \/ ThreadReturn(1)
  \/ Respond(1)

SpecKey == InitKey /\ [][NextKey]_vars

TypeOK ==
  /\ loop \in Req \cup {Idle}
  /\ pc \in [Req -> {"idle", "done"} \cup LoopPcs \cup ThreadPcs]
  /\ dirs \subseteq DirNames
  /\ healthSaw \in BOOLEAN


\* ---------------------------------------------------------------- properties
KeyRequired == Strip(OrEmpty(apiKeyEnv)) # <<>>
KeyMatches(h) == Strip(OrEmpty(h)) = Strip(OrEmpty(apiKeyEnv))
CookiesConfigured == CookieSrc # <<>>
PastKeyCheck == {r \in Req : pc[r] \in {"keychecked", "wsready"} \cup ThreadPcs}
Completes(r) == pc[r] # "done" /\ pc'[r] = "done"

\* C1: two requests in flight at the same time, both past the key check,
\* have distinct workspace directories and distinct credential-copy paths.
C1_DistinctPaths ==
  \A a \in PastKeyCheck, b \in PastKeyCheck :
    a # b =>
      /\ (tmpdir[a] # 0 /\ tmpdir[b] # 0 => WorkDir(tmpdir[a]) # WorkDir(tmpdir[b]))
      /\ (cookiefile[a] # None /\ cookiefile[b] # None
            => cookiefile[a] # cookiefile[b])

\* C2: when _download_sync returns or raises after
\* _prepare_cookiefile_writable gave it a credential-copy path, that path
\* does not exist.
C2_CopyGoneAtReturn ==
  [][\A r \in Req :
       (pc[r] = "thr_exit" /\ pc'[r] = "thr_done" /\ cookiefile[r] # None)
         => copies[cookiefile[r]] = Absent]_vars

\* C3: with API_KEY configured, the key check ends a request whose trimmed
\* header differs from the trimmed key with 401, before any workspace or
\* extraction, and lets a request whose trimmed header equals it go on.
C3_Rejected ==
  \A r \in Req :
    response[r].status = 401 =>
      /\ pc[r] = "done"
      /\ response[r].detail = UnauthorizedDetail
      /\ tmpdir[r] = 0
      /\ ~engineCalls[r]

C3_CheckStep ==
  \A r \in Req :
    (KeyRequired /\ pc[r] = "received" /\ pc'[r] # "received") =>
      IF KeyMatches(header[r])
      THEN pc'[r] = "keychecked" /\ response'[r] = NoResponse
      ELSE /\ pc'[r] = "done"
           /\ response'[r].status = 401
           /\ dirs' = dirs /\ copies' = copies /\ files' = files

\* A request that the key check let through is never answered with 401.
C3_PassedStep ==
  \A r \in Req :
    (Completes(r) /\ pc[r] # "received") => response'[r].status # 401

C3_KeyEnforced == []C3_Rejected /\ [][C3_CheckStep /\ C3_PassedStep]_vars

C3_Witness ==
  /\ KeyRequired
  /\ apiKeyEnv # Strip(apiKeyEnv)
  /\ response[1].status = 401

\* C4: with API_KEY unset, empty or blank, no /download request ends with
\* 401.
C4_OpenAccess ==
  ~KeyRequired => \A r \in Req : response[r].status # 401

C4_Witness ==
  /\ apiKeyEnv = <<" ">>
  /\ pc[1] = "done"
  /\ response[1].status = 200

\* C5: a request ends with 200, 401 or 500 only; an exception without a
\* status code becomes a 500 whose detail ends with the error text; the 401
\* of the key check and the 500 of the missing-file check arrive unchanged.
C5_Ending(r) ==
  \/ /\ pc[r] = "received"
     /\ response'[r] = [status |-> 401, detail |-> UnauthorizedDetail]
  \/ /\ pc[r] = "keychecked"
     /\ response'[r].status = 500
     /\ response'[r].detail = WrapPrefix \o <<"OSError: mkdtemp">>
  \/ /\ pc[r] = "thr_done"
     /\ result[r].kind = "raised"
     /\ result[r].exc.type = "Exception"
     /\ response'[r].status = 500
     /\ response'[r].detail = WrapPrefix \o result[r].exc.text
  \/ /\ pc[r] = "thr_done"
     /\ result[r].kind = "returned"
     /\ response'[r] = [status |-> 500, detail |-> MissingFileDetail]
  \/ /\ pc[r] = "thr_done"
     /\ result[r].kind = "returned"
     /\ response'[r].status = 200

C5_Outcomes ==
  \A r \in Req :
    /\ response[r].status \in {0, 200, 401, 500}
    /\ (pc[r] = "done" <=> response[r].status # 0)

C5_ErrorMapping ==
  []C5_Outcomes /\ [][\A r \in Req : Completes(r) => C5_Ending(r)]_vars

C5_Witness ==
  \E a \in Req, b \in Req :
    /\ response[a] = [status |-> 500,
                      detail |-> WrapPrefix \o <<"DownloadError">>]
    /\ response[b] = [status |-> 500, detail |-> MissingFileDetail]

\* C6: with YTDLP_COOKIES_PATH naming a file that does not exist, a request
\* past the key check ends with 500, the engine is never invoked, no
\* credential copy is created, and the event loop is left free for the
\* requests that follow.
C6_MissingSource ==
  (CookiesConfigured /\ ~srcExists) =>
    /\ \A p \in CookiePaths : copies[p] = Absent
    /\ \A r \in Req :
         /\ ~engineCalls[r]
         /\ cookiefile[r] = None
         /\ pc[r] \notin {"thr_copy_write", "thr_engine", "thr_finally",
                          "thr_remove"}
         /\ (pc[r] = "done" => response[r].status \in {401, 500} /\ loop # r)
         /\ (pc[r] = "done" /\ response[r].status = 401 => KeyRequired)

C6_Witness ==
  /\ CookiesConfigured /\ ~srcExists
  /\ \E a \in Req, b \in Req :
       /\ response[a] = [status |-> 500,
            detail |-> WrapPrefix \o <<"Cookie file not found at ">> \o CookieSrc]
       /\ pc[b] = "received"

\* C7: a request is answered with the file (200) only if the name returned
\* by the extraction is non-empty and names an existing file; if the engine
\* returns and the file is not there, the answer is the fixed 500.
C7_Step(r) ==
  /\ (response'[r].status = 200 =>
        /\ result[r].kind = "returned"
        /\ result[r].filename # <<>>
        /\ result[r].filename \in files
        /\ response'[r].detail = <<Basename(result[r].filename)>>)
  /\ (result[r].kind = "returned"
        /\ (result[r].filename = <<>> \/ result[r].filename \notin files)
        => response'[r] = [status |-> 500, detail |-> MissingFileDetail])

C7_StreamOnlyExisting ==
  [][\A r \in Req : Completes(r) => C7_Step(r)]_vars

C7_Witness ==
  \E a \in Req, b \in Req :
    /\ response[a].status = 200
    /\ response[b] = [status |-> 500, detail |-> MissingFileDetail]

\* C8: a request whose extraction runs on a worker thread does not hold the
\* event loop, so /health and other /download requests are accepted
\* meanwhile; a request between its reception and its offload holds the
\* loop, so it suspends nowhere else.
C8_Responsive ==
  /\ \A r \in Req :
       /\ (pc[r] \in ThreadPcs => loop # r)
       /\ (pc[r] \in LoopPcs <=> loop = r)
  /\ (\A r \in Req : pc[r] \notin LoopPcs) =>
       /\ ENABLED Health
       /\ \A b \in Req : pc[b] = "idle" => ENABLED Receive(b, None)

C8_Witness ==
  \E a \in Req, b \in Req :
    /\ a # b
    /\ pc[a] = "thr_engine"
    /\ healthSaw
    /\ pc[b] = "received"

\* C9: while request A is between the return of
\* _prepare_cookiefile_writable and the end of its engine call, no step of
\* another request removes or rewrites A's credential copy.
C9_CopyUntouched ==
  [][\A a \in Req :
       (cookiefile[a] # None /\ pc[a] = "thr_engine" /\ pc'[a] = "thr_engine")
         => copies'[cookiefile[a]] = copies[cookiefile[a]]]_vars

\* C10: key check, workspace, credential copy, engine, response happen in
\* this order: a 401 leaves the filesystem as it was and never invokes the
\* engine, and the engine runs only for a request whose workspace exists.
C10_Positions ==
  \A r \in Req :
    /\ (pc[r] \in {"idle", "received", "keychecked"} =>
          tmpdir[r] = 0 /\ cookiefile[r] = None /\ ~engineCalls[r])
    /\ (pc[r] \in {"wsready"} \cup (ThreadPcs \ {"thr_done"}) =>
          tmpdir[r] # 0 /\ tmpdir[r] \in dirs)
    /\ (cookiefile[r] # None => tmpdir[r] \in dirs)
    /\ (response[r].status = 401 => ~engineCalls[r])
    /\ (response[r].status = 200 => engineCalls[r])

C10_Steps ==
  \A r \in Req :
    /\ (Completes(r) /\ response'[r].status = 401 =>
          dirs' = dirs /\ copies' = copies /\ files' = files)
    /\ (~engineCalls[r] /\ engineCalls'[r] =>
          tmpdir[r] \in dirs /\ pc[r] = "thr_engine")

C10_Order == []C10_Positions /\ [][C10_Steps]_vars

C10_Witness ==
  \E a \in Req, b \in Req :
    /\ response[a].status = 401
    /\ dirs # {}
    /\ engineCalls[b]
    /\ pc[b] = "thr_finally"

====
